---------------------------- MODULE Spec2Model ----------------------------
(***************************************************************************)
(* A model of helm-debugger: the four searchers of searcher.py and         *)
(* line_searcher.py driving the helm oracle of executor.py (specification  *)
(* Spec), the template parser of parser.py with the two content mutators   *)
(* of executor.py and line_searcher.py working on documents of characters  *)
(* (specification SpecMutator), the probe calls with the temporary chart   *)
(* copy of utils.py step by step (specification SpecProbe), and the parser *)
(* alone on a wider set of texts (specification SpecParser).               *)
(***************************************************************************)
EXTENDS Integers, Sequences, FiniteSets, TLC

VARIABLES
    searcher,         \* which search() is running
    total,            \* len(template.blocks) (block searchers) or template.total_lines (line searchers)
    start_from,       \* start_from / start_line argument of the step-by-step searchers
    pc,               \* position inside search()
    low, high,        \* bisection interval
    last_successful,  \* local last_successful (-1 / 0 when none)
    failing_index,    \* local failing_index / failing_line: None or {index}
    last_successful_result, \* local of the line searchers: None or {HelmResult}
    step_number,      \* local step_number of the bisection searchers
    steps,            \* local steps: the SearchStep / LineSearchStep list
    calls,            \* every run_template call made so far, in order
    search_result,    \* the SearchResult / LineSearchResult returned (read when pc = "done")
    content,          \* template.original_content, a string of characters
    blocks,           \* template.blocks
    op,               \* the mutator call made last
    written,          \* the text handed to write_file_content by that call
    probe_pc,         \* position inside the probe call (the with block) in progress
    temp_dir,         \* TempChartManager.temp_dir of the manager in scope: None or {id}
    temp_dirs,        \* the temporary directories on disk: their id and the template file of their chart copy
    original_file,    \* the template file of the original chart on disk
    mkdtemp_count,    \* how many directories tempfile.mkdtemp has made
    runs,             \* the chart path of every run_template call, in order
    writes,           \* the target of every write_file_content call, in order
    outcome           \* how the last probe call ended: None, a returned HelmResult, or a raised exception

vars == << searcher, total, start_from, pc, low, high, last_successful, failing_index,
           last_successful_result, step_number, steps, calls, search_result, content, blocks, op, written,
           probe_pc, temp_dir, temp_dirs, original_file, mkdtemp_count, runs, writes, outcome >>

searchVars == << searcher, total, start_from, pc, low, high, last_successful, failing_index,
                 last_successful_result, step_number, steps, calls, search_result >>

mutatorVars == << content, blocks, op, written >>

probeVars == << probe_pc, temp_dir, temp_dirs, original_file, mkdtemp_count, runs, writes, outcome >>

(***************************************************************************)
(* Bounds of the model.                                                    *)
(***************************************************************************)
MaxUnits == 10

\* Python's None, and Optional values as sets of at most one element
None == {}

Some(x) == {x}

TheValue(o) == CHOOSE x \in o : TRUE

(***************************************************************************)
(* executor.py: HelmExecutor.run_template                                  *)
(***************************************************************************)
\* The text f"Command timed out after {timeout} seconds" for the default timeout=60
TimeoutMessage == "Command timed out after 60 seconds"

\* What subprocess.run can do: complete with a return code, raise
\* TimeoutExpired, or raise another exception
ProcessOutcomes ==
    { [kind |-> "completed", returncode |-> 0, stdout |-> "manifest", stderr |-> ""],
      [kind |-> "completed", returncode |-> 1, stdout |-> "", stderr |-> "Error: render failed"],
      [kind |-> "TimeoutExpired", returncode |-> 0, stdout |-> "", stderr |-> ""],
      [kind |-> "Exception", returncode |-> 0, stdout |-> "", stderr |-> "OSError"] }

run_template_TimeoutPasses(chart_path, proc) ==
    IF proc.kind = "completed"
    THEN [success |-> proc.returncode = 0, stdout |-> proc.stdout, stderr |-> proc.stderr,
          exit_code |-> proc.returncode, command |-> chart_path]
    ELSE IF proc.kind = "TimeoutExpired"
    THEN [success |-> TRUE, stdout |-> "", stderr |-> TimeoutMessage,
          exit_code |-> -1, command |-> chart_path]
    ELSE [success |-> FALSE, stdout |-> "", stderr |-> proc.stderr,
          exit_code |-> -1, command |-> chart_path]

run_template_ExceptionExitCode(chart_path, proc) ==
    IF proc.kind = "completed"
    THEN [success |-> proc.returncode = 0, stdout |-> proc.stdout, stderr |-> proc.stderr,
          exit_code |-> proc.returncode, command |-> chart_path]
    ELSE IF proc.kind = "TimeoutExpired"
    THEN [success |-> FALSE, stdout |-> "", stderr |-> TimeoutMessage,
          exit_code |-> -1, command |-> chart_path]
    ELSE [success |-> FALSE, stdout |-> "", stderr |-> proc.stderr,
          exit_code |-> 1, command |-> chart_path]

run_template(chart_path, proc) ==
    IF proc.kind = "completed"
    THEN [success |-> proc.returncode = 0, stdout |-> proc.stdout, stderr |-> proc.stderr,
          exit_code |-> proc.returncode, command |-> chart_path]
    ELSE IF proc.kind = "TimeoutExpired"
    THEN [success |-> FALSE, stdout |-> "", stderr |-> TimeoutMessage,
          exit_code |-> -1, command |-> chart_path]
    ELSE [success |-> FALSE, stdout |-> "", stderr |-> proc.stderr,
          exit_code |-> -1, command |-> chart_path]

\* One entry of the call history: the chart run_template was given ("original"
\* or a temporary copy), the cut point written into the copy, what the helm
\* process did, and the HelmResult returned
Call(chart_path, cut, proc) ==
    [chart |-> chart_path, cut |-> cut, proc |-> proc, result |-> run_template(chart_path, proc)]

\* IncrementalExecutor.validate_full_template: helm on the original chart
validate_full_template(proc) == Call("original", -1, proc)

\* IncrementalExecutor.execute_up_to_block: helm on a temporary copy whose
\* template keeps blocks 0..block_index
execute_up_to_block(block_index, proc) == Call("temp", block_index, proc)

\* LineBasedExecutor.execute_up_to_line: helm on a temporary copy whose
\* template keeps lines 1..end_line
execute_up_to_line_FirstLine(end_line, proc) == Call("temp", 1, proc)

execute_up_to_line(end_line, proc) == Call("temp", end_line, proc)

(***************************************************************************)
(* searcher.py: SearchStep, SearchResult, BinarySearcher                   *)
(***************************************************************************)
SearchStep_FirstBlock(number, mid, call) ==
    [step_number |-> number, blocks_tested |-> <<0, 0>>, result |-> call.result,
     block_index |-> 0]

SearchStep(number, mid, call) ==
    [step_number |-> number, blocks_tested |-> <<0, mid>>, result |-> call.result,
     block_index |-> mid]

\* SearchStep.passed / LineSearchStep.passed
passed(step) == step.result.success

\* SearchResult with the dataclass defaults (None) for what is not passed;
\* __post_init__ turns steps=None into []
SearchResult(found, failing, last_ok, step_list, error) ==
    [found_error |-> found, failing_block_index |-> failing,
     last_successful_block_index |-> last_ok, steps |-> step_list, error_result |-> error]

NoResult == [found_error |-> FALSE]

\* "if not blocks:" of BinarySearcher.search and StepByStepSearcher.search
no_blocks_Never(total_blocks) == FALSE

no_blocks(total_blocks) == total_blocks = 0

\* mid = (low + high) // 2 of BinarySearcher.search
block_mid_Low(lo, hi) == lo

block_mid(lo, hi) == (lo + hi) \div 2

\* "last_successful if last_successful >= 0 else None" of the block searchers
last_successful_block_index_Positive(last) == IF last > 0 THEN Some(last) ELSE None

last_successful_block_index(last) == IF last >= 0 THEN Some(last) ELSE None

\* if not blocks: return ...; full_result = validate_full_template(); if
\* full_result.success: return ...; low = 0; high = total_blocks - 1; ...
BinaryStart ==
    /\ searcher = "BinarySearcher"
    /\ pc = "start"
    /\ IF no_blocks(total)
       THEN /\ search_result' = SearchResult(FALSE, None, None, <<>>, None)
            /\ pc' = "done"
            /\ UNCHANGED << low, high, last_successful, failing_index, calls >>
       ELSE \E proc \in ProcessOutcomes :
              LET full_result == validate_full_template(proc) IN
              /\ calls' = Append(calls, full_result)
              /\ IF full_result.result.success
                 THEN /\ search_result' = SearchResult(FALSE, None, None, steps, None)
                      /\ pc' = "done"
                      /\ UNCHANGED << low, high, last_successful, failing_index >>
                 ELSE /\ low' = 0
                      /\ high' = total - 1
                      /\ last_successful' = -1
                      /\ failing_index' = None
                      /\ pc' = "loop"
                      /\ UNCHANGED search_result
    /\ UNCHANGED << searcher, total, start_from, last_successful_result, step_number, steps >>
    /\ UNCHANGED << mutatorVars, probeVars >>

\* One iteration of "while low <= high"
BinaryLoop ==
    /\ searcher = "BinarySearcher"
    /\ pc = "loop"
    /\ low <= high
    /\ \E proc \in ProcessOutcomes :
         LET mid == block_mid(low, high)
             result == execute_up_to_block(mid, proc)
         IN
         /\ step_number' = step_number + 1
         /\ calls' = Append(calls, result)
         /\ steps' = Append(steps, SearchStep(step_number + 1, mid, result))
         /\ IF result.result.success
            THEN /\ last_successful' = mid
                 /\ low' = mid + 1
                 /\ UNCHANGED << failing_index, high >>
            ELSE /\ failing_index' = Some(mid)
                 /\ high' = mid - 1
                 /\ UNCHANGED << last_successful, low >>
    /\ UNCHANGED << searcher, total, start_from, pc, last_successful_result, search_result >>
    /\ UNCHANGED << mutatorVars, probeVars >>

\* After the loop: re-run the failing prefix for the final error and return
BinaryReturn ==
    /\ searcher = "BinarySearcher"
    /\ pc = "loop"
    /\ ~(low <= high)
    /\ IF failing_index # None
       THEN \E proc \in ProcessOutcomes :
              LET error_result == execute_up_to_block(TheValue(failing_index), proc) IN
              /\ calls' = Append(calls, error_result)
              /\ search_result' =
                    SearchResult(TRUE, failing_index,
                                 last_successful_block_index(last_successful),
                                 steps, Some(error_result.result))
       ELSE /\ search_result' = SearchResult(FALSE, None, None, steps, None)
            /\ UNCHANGED calls
    /\ pc' = "done"
    /\ UNCHANGED << searcher, total, start_from, low, high, last_successful, failing_index,
                    last_successful_result, step_number, steps >>
    /\ UNCHANGED << mutatorVars, probeVars >>

(***************************************************************************)
(* searcher.py: StepByStepSearcher                                         *)
(***************************************************************************)
\* if not blocks: return ...; steps = []; last_successful = -1;
\* the loop variable i (kept in low) starts at start_from
StepStart ==
    /\ searcher = "StepByStepSearcher"
    /\ pc = "start"
    /\ IF no_blocks(total)
       THEN /\ search_result' = SearchResult(FALSE, None, None, <<>>, None)
            /\ pc' = "done"
            /\ UNCHANGED << low, last_successful >>
       ELSE /\ last_successful' = -1
            /\ low' = start_from
            /\ pc' = "loop"
            /\ UNCHANGED search_result
    /\ UNCHANGED << searcher, total, start_from, high, failing_index, last_successful_result,
                    step_number, steps, calls >>
    /\ UNCHANGED << mutatorVars, probeVars >>

\* One iteration of "for i in range(start_from, len(blocks))"
StepLoop ==
    /\ searcher = "StepByStepSearcher"
    /\ pc = "loop"
    /\ low < total
    /\ \E proc \in ProcessOutcomes :
         LET i == low
             result == execute_up_to_block(i, proc)
             step == SearchStep(i - start_from + 1, i, result)
         IN
         /\ calls' = Append(calls, result)
         /\ steps' = Append(steps, step)
         /\ IF result.result.success
            THEN /\ last_successful' = i
                 /\ low' = i + 1
                 /\ UNCHANGED << pc, search_result >>
            ELSE /\ search_result' =
                       SearchResult(TRUE, Some(i),
                                    last_successful_block_index(last_successful),
                                    Append(steps, step), Some(result.result))
                 /\ pc' = "done"
                 /\ UNCHANGED << last_successful, low >>
    /\ UNCHANGED << searcher, total, start_from, high, failing_index, last_successful_result,
                    step_number >>
    /\ UNCHANGED << mutatorVars, probeVars >>

\* The range is exhausted: no error found
StepReturn ==
    /\ searcher = "StepByStepSearcher"
    /\ pc = "loop"
    /\ ~(low < total)
    /\ search_result' = SearchResult(FALSE, None, Some(total - 1), steps, None)
    /\ pc' = "done"
    /\ UNCHANGED << searcher, total, start_from, low, high, last_successful, failing_index,
                    last_successful_result, step_number, steps, calls >>
    /\ UNCHANGED << mutatorVars, probeVars >>

(***************************************************************************)
(* line_searcher.py: LineSearchStep, LineSearchResult, LineBinarySearcher  *)
(***************************************************************************)
LineSearchStep_NumberedByLine(number, mid, call) ==
    [step_number |-> mid, lines_tested |-> <<1, mid>>, result |-> call.result,
     line_number |-> mid]

LineSearchStep(number, mid, call) ==
    [step_number |-> number, lines_tested |-> <<1, mid>>, result |-> call.result,
     line_number |-> mid]

LineSearchResult(found, failing, last_ok, step_list, error, last_ok_result) ==
    [found_error |-> found, failing_line |-> failing, last_successful_line |-> last_ok,
     steps |-> step_list, error_result |-> error, last_successful_result |-> last_ok_result]

\* "if total_lines == 0:" of LineBinarySearcher.search and LineStepByStepSearcher.search
no_lines(total_lines) == total_lines = 0

\* mid = (low + high) // 2 of LineBinarySearcher.search
line_mid_Ceiling(lo, hi) == (lo + hi + 1) \div 2

line_mid(lo, hi) == (lo + hi) \div 2

\* "last_successful if last_successful > 0 else None" of the line searchers
last_successful_line_Always(last) == Some(last)

last_successful_line(last) == IF last > 0 THEN Some(last) ELSE None

\* if total_lines == 0: return ...; low = 1; high = total_lines; ...
LineBinaryStart ==
    /\ searcher = "LineBinarySearcher"
    /\ pc = "start"
    /\ IF no_lines(total)
       THEN /\ search_result' = LineSearchResult(FALSE, None, None, <<>>, None, None)
            /\ pc' = "done"
            /\ UNCHANGED << low, high, last_successful, failing_index, last_successful_result >>
       ELSE /\ low' = 1
            /\ high' = total
            /\ last_successful' = 0
            /\ failing_index' = None
            /\ last_successful_result' = None
            /\ pc' = "loop"
            /\ UNCHANGED search_result
    /\ UNCHANGED << searcher, total, start_from, step_number, steps, calls >>
    /\ UNCHANGED << mutatorVars, probeVars >>

\* One iteration of "while low <= high"
LineBinaryLoop ==
    /\ searcher = "LineBinarySearcher"
    /\ pc = "loop"
    /\ low <= high
    /\ \E proc \in ProcessOutcomes :
         LET mid == line_mid(low, high)
             result == execute_up_to_line(mid, proc)
         IN
         /\ step_number' = step_number + 1
         /\ calls' = Append(calls, result)
         /\ steps' = Append(steps, LineSearchStep(step_number + 1, mid, result))
         /\ IF result.result.success
            THEN /\ last_successful' = mid
                 /\ last_successful_result' = Some(result.result)
                 /\ low' = mid + 1
                 /\ UNCHANGED << failing_index, high >>
            ELSE /\ failing_index' = Some(mid)
                 /\ high' = mid - 1
                 /\ UNCHANGED << last_successful, last_successful_result, low >>
    /\ UNCHANGED << searcher, total, start_from, pc, search_result >>
    /\ UNCHANGED << mutatorVars, probeVars >>

\* After the loop: re-run the failing prefix for the final error and return
LineBinaryReturn ==
    /\ searcher = "LineBinarySearcher"
    /\ pc = "loop"
    /\ ~(low <= high)
    /\ IF failing_index # None
       THEN \E proc \in ProcessOutcomes :
              LET error_result == execute_up_to_line(TheValue(failing_index), proc) IN
              /\ calls' = Append(calls, error_result)
              /\ search_result' =
                    LineSearchResult(TRUE, failing_index,
                                     last_successful_line(last_successful),
                                     steps, Some(error_result.result), last_successful_result)
       ELSE /\ search_result' = LineSearchResult(FALSE, None, None, steps, None, None)
            /\ UNCHANGED calls
    /\ pc' = "done"
    /\ UNCHANGED << searcher, total, start_from, low, high, last_successful, failing_index,
                    last_successful_result, step_number, steps >>
    /\ UNCHANGED << mutatorVars, probeVars >>

(***************************************************************************)
(* line_searcher.py: LineStepByStepSearcher                                *)
(***************************************************************************)
\* if total_lines == 0: return ...; steps = []; last_successful = 0; the loop
\* variable line_num (kept in low) starts at start_line
LineStepStart ==
    /\ searcher = "LineStepByStepSearcher"
    /\ pc = "start"
    /\ IF no_lines(total)
       THEN /\ search_result' = LineSearchResult(FALSE, None, None, <<>>, None, None)
            /\ pc' = "done"
            /\ UNCHANGED << low, last_successful, last_successful_result >>
       ELSE /\ last_successful' = 0
            /\ last_successful_result' = None
            /\ low' = start_from
            /\ pc' = "loop"
            /\ UNCHANGED search_result
    /\ UNCHANGED << searcher, total, start_from, high, failing_index, step_number, steps, calls >>
    /\ UNCHANGED << mutatorVars, probeVars >>

\* One iteration of "for line_num in range(start_line, total_lines + 1)"
LineStepLoop ==
    /\ searcher = "LineStepByStepSearcher"
    /\ pc = "loop"
    /\ low < total + 1
    /\ \E proc \in ProcessOutcomes :
         LET line_num == low
             result == execute_up_to_line(line_num, proc)
             step == LineSearchStep(line_num - start_from + 1, line_num, result)
         IN
         /\ calls' = Append(calls, result)
         /\ steps' = Append(steps, step)
         /\ IF result.result.success
            THEN /\ last_successful' = line_num
                 /\ last_successful_result' = Some(result.result)
                 /\ low' = line_num + 1
                 /\ UNCHANGED << pc, search_result >>
            ELSE /\ search_result' =
                       LineSearchResult(TRUE, Some(line_num),
                                        last_successful_line(last_successful),
                                        Append(steps, step), Some(result.result),
                                        last_successful_result)
                 /\ pc' = "done"
                 /\ UNCHANGED << last_successful, last_successful_result, low >>
    /\ UNCHANGED << searcher, total, start_from, high, failing_index, step_number >>
    /\ UNCHANGED << mutatorVars, probeVars >>

\* The range is exhausted: no error found
LineStepReturn ==
    /\ searcher = "LineStepByStepSearcher"
    /\ pc = "loop"
    /\ ~(low < total + 1)
    /\ search_result' = LineSearchResult(FALSE, None, Some(total), steps, None, None)
    /\ pc' = "done"
    /\ UNCHANGED << searcher, total, start_from, low, high, last_successful, failing_index,
                    last_successful_result, step_number, steps, calls >>
    /\ UNCHANGED << mutatorVars, probeVars >>

(***************************************************************************)
(* The search machine: one search() call of one searcher on one template   *)
(***************************************************************************)
BlockSearchers == {"BinarySearcher", "StepByStepSearcher"}

LineSearchers == {"LineBinarySearcher", "LineStepByStepSearcher"}

BisectionSearchers == {"BinarySearcher", "LineBinarySearcher"}

\* The first index of the searcher's range: blocks count from 0, lines from 1
FirstIndex == IF searcher \in BlockSearchers THEN 0 ELSE 1

\* The last index of the searcher's range
LastIndex == IF searcher \in BlockSearchers THEN total - 1 ELSE total

\* The defaults start_from=0 and start_line=1
DefaultStart_One(s) == 1

DefaultStart(s) == IF s \in BlockSearchers THEN 0 ELSE 1

\* The state at the call of search(): a template of 0..MaxUnits units; the
\* bisection searchers take no start argument, the step-by-step searchers
\* take any start from the default to one past the last index
SearchInit ==
    /\ searcher \in BlockSearchers \cup LineSearchers
    /\ total \in 0..MaxUnits
    /\ start_from \in (IF searcher \in BisectionSearchers
                       THEN {DefaultStart(searcher)}
                       ELSE DefaultStart(searcher)..(total + 1))
    /\ pc = "start"
    /\ low = 0
    /\ high = 0
    /\ last_successful = 0
    /\ failing_index = None
    /\ last_successful_result = None
    /\ step_number = 0
    /\ steps = << >>
    /\ calls = << >>
    /\ search_result = NoResult

\* No probe call is in progress and no temporary directory exists
ProbeIdle ==
    /\ probe_pc = "idle"
    /\ temp_dir = None
    /\ temp_dirs = {}
    /\ original_file = << >>
    /\ mkdtemp_count = 0
    /\ runs = << >>
    /\ writes = << >>
    /\ outcome = None

Init ==
    /\ SearchInit
    /\ content = << >>
    /\ blocks = << >>
    /\ op = [kind |-> "none"]
    /\ written = << >>
    /\ ProbeIdle

Next ==
    \/ BinaryStart
    \/ BinaryLoop
    \/ BinaryReturn
    \/ StepStart
    \/ StepLoop
    \/ StepReturn
    \/ LineBinaryStart
    \/ LineBinaryLoop
    \/ LineBinaryReturn
    \/ LineStepStart
    \/ LineStepLoop
    \/ LineStepReturn

Spec == Init /\ [][Next]_vars

\* search() is straight-line sequential code: while a step is possible it is taken
FairSpec == Spec /\ WF_vars(Next)

(***************************************************************************)
(* Vocabulary of the search properties                                     *)
(***************************************************************************)
Done == pc = "done"

Bisecting == searcher \in BisectionSearchers

\* The index a step probed
StepCut(step) == IF searcher \in BlockSearchers THEN step.block_index ELSE step.line_number

\* The cut points of the recorded steps, in order
Cuts == [i \in 1..Len(steps) |-> StepCut(steps[i])]

FailingOf(r) == IF searcher \in BlockSearchers THEN r.failing_block_index ELSE r.failing_line

LastGoodOf(r) ==
    IF searcher \in BlockSearchers THEN r.last_successful_block_index ELSE r.last_successful_line

\* Every oracle answer seen so far is the one of the deterministic oracle that
\* fails the unmodified document, passes every prefix cut below k and fails
\* every prefix cut at or above k
MonotoneAt(k) ==
    \A i \in 1..Len(calls) :
        IF calls[i].chart = "original"
        THEN ~calls[i].result.success
        ELSE calls[i].result.success <=> (calls[i].cut < k)

RECURSIVE FloorLog2(_)
FloorLog2(n) == IF n <= 1 THEN 0 ELSE 1 + FloorLog2(n \div 2)

\* C1: Monotonic convergence. When a bisection search over n >= 1 units has
\* returned and every oracle answer was that of the monotone oracle with
\* first failing cut k, the result has found_error, failing index k and
\* last successful index k-1 (None when k is the first index).
C1_MonotonicConvergence ==
    \A k \in FirstIndex..LastIndex :
        (Bisecting /\ Done /\ total >= 1 /\ MonotoneAt(k)) =>
            /\ search_result.found_error
            /\ FailingOf(search_result) = Some(k)
            /\ LastGoodOf(search_result) = (IF k = FirstIndex THEN None ELSE Some(k - 1))

\* The scenario of the specification: 10 units, units 0..5 render, unit 6 fails
C1_Witness ==
    /\ searcher = "BinarySearcher"
    /\ Done
    /\ total = 10
    /\ MonotoneAt(6)
    /\ search_result.found_error
    /\ search_result.failing_block_index = Some(6)
    /\ search_result.last_successful_block_index = Some(5)

\* C2: Probe bound and termination. Under any mix of oracle outcomes a
\* bisection search over n >= 1 units never has more than floor(log2(n)) + 1
\* recorded steps, and the search returns.
C2_ProbeBound ==
    /\ []((Bisecting /\ total >= 1) => Len(steps) <= FloorLog2(total) + 1)
    /\ <>Done

\* A bisection over 10 lines that returned after exactly floor(log2(10)) + 1 = 4
\* steps, one of which timed out and one of which passed
C2_Witness ==
    /\ searcher = "LineBinarySearcher"
    /\ Done
    /\ total = 10
    /\ Len(steps) = FloorLog2(10) + 1
    /\ \E i \in 1..Len(calls) : calls[i].proc.kind = "TimeoutExpired"
    /\ \E i \in 1..Len(steps) : passed(steps[i])

\* C3: No-error short-circuit, as claimed for both bisection searchers: when
\* the search of a non-empty document has returned and the oracle passed
\* whatever it was given (so it passes the unmodified document), the result has
\* found_error = false, at most one oracle call was made and no step was recorded.
C3_NoErrorShortCircuit ==
    (Bisecting /\ Done /\ total >= 1
        /\ \A i \in 1..Len(calls) : calls[i].result.success) =>
            /\ ~search_result.found_error
            /\ Len(calls) <= 1
            /\ search_result.steps = << >>

\* C4: Empty document. Each of the four searchers returns found_error = false
\* with an empty step list and without any oracle call when the template has
\* zero units (block searchers) or zero lines (line searchers).
C4_EmptyDocument ==
    (Done /\ total = 0) =>
        /\ ~search_result.found_error
        /\ search_result.steps = << >>
        /\ calls = << >>

C4_Witness ==
    /\ Done
    /\ total = 0
    /\ searcher = "BinarySearcher"
    /\ ~search_result.found_error

\* The cut points bisection takes over lo..hi when every probe fails
RECURSIVE AllFailCuts(_, _)
AllFailCuts(lo, hi) ==
    IF lo > hi THEN << >>
    ELSE LET mid == (lo + hi) \div 2 IN << mid >> \o AllFailCuts(lo, mid - 1)

AllTimedOut == \A i \in 1..Len(calls) : calls[i].proc.kind = "TimeoutExpired"

AllExitedNonZero ==
    \A i \in 1..Len(calls) :
        calls[i].proc.kind = "completed" /\ calls[i].proc.returncode # 0

\* C5: Timeout on every probe. A bisection search in which every oracle call
\* timed out returns, having taken the cut points (and number of steps) of
\* the search in which every call exits non-zero, with found_error, the first
\* index as failing index, no last successful index and an error_result that
\* is a failure carrying the timeout message.
C5_TimeoutOnEveryProbe ==
    (Bisecting /\ Done /\ total >= 1) =>
        /\ (AllTimedOut \/ AllExitedNonZero) => Cuts = AllFailCuts(FirstIndex, LastIndex)
        /\ AllTimedOut =>
              /\ search_result.found_error
              /\ FailingOf(search_result) = Some(FirstIndex)
              /\ LastGoodOf(search_result) = None
              /\ search_result.steps = steps
              /\ \A r \in search_result.error_result :
                     ~r.success /\ r.stderr = TimeoutMessage /\ r.exit_code = -1
              /\ search_result.error_result # None

C5_Witness ==
    /\ searcher = "BinarySearcher"
    /\ Done
    /\ total = 10
    /\ AllTimedOut
    /\ Cuts = << 4, 1, 0 >>
    /\ Len(calls) = Len(steps) + 2
    /\ search_result.error_result = Some(run_template("temp", CHOOSE p \in ProcessOutcomes : p.kind = "TimeoutExpired"))


\* C16: Oracle classification. Every run_template call returned a HelmResult:
\* success exactly when the helm process completed with return code 0; a
\* non-zero return code gives success false with the captured stderr and that
\* code; a timeout gives success false, exit code -1, empty stdout and the
\* timeout text; another exception gives success false, exit code -1 and the
\* exception text.
C16_OracleClassification ==
    \A i \in 1..Len(calls) :
        LET proc == calls[i].proc
            result == calls[i].result
        IN
        /\ DOMAIN result = { "success", "stdout", "stderr", "exit_code", "command" }
        /\ result.success <=> (proc.kind = "completed" /\ proc.returncode = 0)
        /\ (proc.kind = "completed" /\ proc.returncode = 0)
              => (result.exit_code = 0 /\ result.stdout = proc.stdout)
        /\ (proc.kind = "completed" /\ proc.returncode # 0)
              => (~result.success /\ result.stderr = proc.stderr
                  /\ result.exit_code = proc.returncode)
        /\ proc.kind = "TimeoutExpired"
              => (~result.success /\ result.exit_code = -1 /\ result.stdout = ""
                  /\ result.stderr = TimeoutMessage)
        /\ proc.kind = "Exception"
              => (~result.success /\ result.exit_code = -1 /\ result.stderr = proc.stderr)

\* A finished search whose helm processes ended in all four ways
C16_Witness ==
    /\ Done
    /\ \A kind \in { "completed", "TimeoutExpired", "Exception" } :
          \E i \in 1..Len(calls) : calls[i].proc.kind = kind
    /\ \E i \in 1..Len(calls) : calls[i].result.success
    /\ \E i \in 1..Len(calls) : calls[i].proc.kind = "completed" /\ ~calls[i].result.success


(***************************************************************************)
(* Python strings as sequences of one-character strings                    *)
(***************************************************************************)
\* The characters str.splitlines breaks a line at. "\f" stands for the
\* breaks other than "\n" and "\r" ("\v", "\f", "\x1c".."\x1e", "\x85", ...)
LineBreaks == { "\n", "\r", "\f" }

\* The characters str.strip() removes and the regular expression \s matches
Whitespace == { " ", "\t", "\n", "\r", "\f" }

Min(S) == CHOOSE x \in S : \A y \in S : x <= y

\* The index of the last character of the first line of s, its line break
\* included ("\r\n" is one break)
RECURSIVE FirstLineEndFrom(_, _)
FirstLineEndFrom(s, i) ==
    IF i > Len(s) THEN Len(s)
    ELSE IF s[i] \notin LineBreaks THEN FirstLineEndFrom(s, i + 1)
    ELSE IF s[i] = "\r" /\ i < Len(s) /\ s[i + 1] = "\n" THEN i + 1 ELSE i

FirstLineEnd(s) == FirstLineEndFrom(s, 1)

\* s.splitlines(keepends=True)
RECURSIVE splitlines_keepends(_)
splitlines_keepends(s) ==
    IF s = << >> THEN << >>
    ELSE LET n == FirstLineEnd(s) IN
         << SubSeq(s, 1, n) >> \o splitlines_keepends(SubSeq(s, n + 1, Len(s)))

\* s.rstrip(chars)
RECURSIVE rstrip(_, _)
rstrip(s, chars) ==
    IF s # << >> /\ s[Len(s)] \in chars THEN rstrip(SubSeq(s, 1, Len(s) - 1), chars) ELSE s

RECURSIVE lstrip(_, _)
lstrip(s, chars) ==
    IF s # << >> /\ s[1] \in chars THEN lstrip(SubSeq(s, 2, Len(s)), chars) ELSE s

\* s.strip()
strip(s) == lstrip(rstrip(s, Whitespace), Whitespace)

\* One line of splitlines(keepends=True) without its line break
WithoutBreak(line) ==
    IF line = << >> \/ line[Len(line)] \notin LineBreaks THEN line
    ELSE IF Len(line) >= 2 /\ line[Len(line) - 1] = "\r" /\ line[Len(line)] = "\n"
    THEN SubSeq(line, 1, Len(line) - 2)
    ELSE SubSeq(line, 1, Len(line) - 1)

\* s.splitlines()
splitlines(s) ==
    LET kept == splitlines_keepends(s) IN [i \in 1..Len(kept) |-> WithoutBreak(kept[i])]

\* "".join(lines)
RECURSIVE join(_)
join(lines) == IF lines = << >> THEN << >> ELSE Head(lines) \o join(Tail(lines))

(***************************************************************************)
(* The regular expressions of parser.py and line_searcher.py               *)
(***************************************************************************)
\* The literal lit stands in s at index i
LiteralAt(s, i, lit) ==
    /\ i >= 1
    /\ i + Len(lit) - 1 <= Len(s)
    /\ s[i] = lit[1]
    /\ SubSeq(s, i, i + Len(lit) - 1) = lit

\* The index after an optional character c at i (the greedy "c?")
SkipOptional(s, i, c) == IF i <= Len(s) /\ s[i] = c THEN i + 1 ELSE i

\* The index after the whitespace at i (the greedy "\s*")
RECURSIVE SkipWhitespace(_, _)
SkipWhitespace(s, i) ==
    IF i <= Len(s) /\ s[i] \in Whitespace THEN SkipWhitespace(s, i + 1) ELSE i

\* The index after a match of \{\{-?\s* at i, or 0 when it does not match there
AfterOpen(s, i) ==
    IF LiteralAt(s, i, << "{", "{" >>) THEN SkipWhitespace(s, SkipOptional(s, i + 2, "-")) ELSE 0

\* \{\{-?\s*<keyword>\s (and the same with \s+) matches at i
KeywordAt(s, i, keyword) ==
    LET j == AfterOpen(s, i) IN
    /\ j > 0
    /\ LiteralAt(s, j, keyword)
    /\ j + Len(keyword) <= Len(s)
    /\ s[j + Len(keyword)] \in Whitespace

\* \{\{-?\s*<keyword>\s*-?\}\} matches at i
ClosedKeywordAt(s, i, keyword) ==
    LET j == AfterOpen(s, i) IN
    /\ j > 0
    /\ LiteralAt(s, j, keyword)
    /\ LiteralAt(s, SkipOptional(s, SkipWhitespace(s, j + Len(keyword)), "-"), << "}", "}" >>)

\* \{\{-?\s*else\s+if\s+ (and the same ending in \s) matches at i
ElseIfAt(s, i) ==
    LET j == AfterOpen(s, i)
        k == SkipWhitespace(s, j + 4)
    IN
    /\ j > 0
    /\ LiteralAt(s, j, << "e", "l", "s", "e" >>)
    /\ k > j + 4
    /\ LiteralAt(s, k, << "i", "f" >>)
    /\ k + 2 <= Len(s)
    /\ s[k + 2] \in Whitespace

\* \{\{/\*.*?\*/\}\} with re.DOTALL matches at i
CommentAt(s, i) ==
    /\ LiteralAt(s, i, << "{", "{", "/", "*" >>)
    /\ \E j \in (i + 4)..Len(s) : LiteralAt(s, j, << "*", "/", "}", "}" >>)

\* \{\{-?.*?-?\}\} with re.DOTALL matches at i
ExpressionAt(s, i) ==
    /\ LiteralAt(s, i, << "{", "{" >>)
    /\ \E j \in (i + 2)..Len(s) : LiteralAt(s, j, << "}", "}" >>)

\* Where a match can start: every pattern of parser.py and line_searcher.py
\* begins with \{\{
Opens(s) == { i \in 1..(Len(s) - 1) : s[i] = "{" /\ s[i + 1] = "{" }

\* TemplateParser.PATTERNS[name].search(s)
PATTERNS(name, s) ==
    \E i \in Opens(s) :
        CASE name = "if_start" -> KeywordAt(s, i, << "i", "f" >>)
          [] name = "else_if" -> ElseIfAt(s, i)
          [] name = "else" -> ClosedKeywordAt(s, i, << "e", "l", "s", "e" >>)
          [] name = "end" -> ClosedKeywordAt(s, i, << "e", "n", "d" >>)
          [] name = "range_start" -> KeywordAt(s, i, << "r", "a", "n", "g", "e" >>)
          [] name = "with_start" -> KeywordAt(s, i, << "w", "i", "t", "h" >>)
          [] name = "define_start" -> KeywordAt(s, i, << "d", "e", "f", "i", "n", "e" >>)
          [] name = "template" -> KeywordAt(s, i, << "t", "e", "m", "p", "l", "a", "t", "e" >>)
          [] name = "include" -> KeywordAt(s, i, << "i", "n", "c", "l", "u", "d", "e" >>)
          [] name = "comment" -> CommentAt(s, i)
          [] name = "expression" -> ExpressionAt(s, i)

(***************************************************************************)
(* parser.py: TemplateParser                                               *)
(***************************************************************************)
\* TemplateParser._detect_block_type: the BlockType value of the first
\* pattern, in the order of the if statements, that matches line.strip()
_detect_block_type_OpenFirst(line) ==
    LET stripped == strip(line) IN
    IF PATTERNS("comment", stripped) THEN "comment"
    ELSE IF PATTERNS("if_start", stripped) THEN "if"
    ELSE IF PATTERNS("else_if", stripped) THEN "else_if"
    ELSE IF PATTERNS("else", stripped) THEN "else"
    ELSE IF PATTERNS("end", stripped) THEN "end"
    ELSE IF PATTERNS("range_start", stripped) THEN "range"
    ELSE IF PATTERNS("with_start", stripped) THEN "with"
    ELSE IF PATTERNS("define_start", stripped) THEN "define"
    ELSE IF PATTERNS("template", stripped) THEN "template"
    ELSE IF PATTERNS("include", stripped) THEN "include"
    ELSE IF PATTERNS("expression", stripped) THEN "expression"
    ELSE "plain"

_detect_block_type(line) ==
    LET stripped == strip(line) IN
    IF PATTERNS("comment", stripped) THEN "comment"
    ELSE IF PATTERNS("else_if", stripped) THEN "else_if"
    ELSE IF PATTERNS("else", stripped) THEN "else"
    ELSE IF PATTERNS("end", stripped) THEN "end"
    ELSE IF PATTERNS("if_start", stripped) THEN "if"
    ELSE IF PATTERNS("range_start", stripped) THEN "range"
    ELSE IF PATTERNS("with_start", stripped) THEN "with"
    ELSE IF PATTERNS("define_start", stripped) THEN "define"
    ELSE IF PATTERNS("template", stripped) THEN "template"
    ELSE IF PATTERNS("include", stripped) THEN "include"
    ELSE IF PATTERNS("expression", stripped) THEN "expression"
    ELSE "plain"

TemplateBlock_EndsNextLine(block_type, line, current_line, level) ==
    [block_type |-> block_type, content |-> line, start_line |-> current_line,
     end_line |-> current_line + 1, nesting_level |-> level]

TemplateBlock(block_type, line, current_line, level) ==
    [block_type |-> block_type, content |-> line, start_line |-> current_line,
     end_line |-> current_line, nesting_level |-> level]

Max_First(a, b) == a

Max_Second(a, b) == b

Max(a, b) == IF a >= b THEN a ELSE b

\* The while loop of TemplateParser._parse_content from line index i (1-based
\* here, so current_line = i), with the blocks (parsed) and nesting_level reached
RECURSIVE ParseFrom(_, _, _, _)
ParseFrom(lines, i, nesting_level, parsed) ==
    IF ~(i <= Len(lines)) THEN parsed
    ELSE
      LET line == lines[i] IN
      IF strip(line) = << >> THEN ParseFrom(lines, i + 1, nesting_level, parsed)
      ELSE
        LET block_type == _detect_block_type(line) IN
        IF block_type \in { "if", "range", "with", "define" }
        THEN ParseFrom(lines, i + 1, nesting_level + 1,
                       Append(parsed, TemplateBlock(block_type, line, i, nesting_level)))
        ELSE IF block_type = "end"
        THEN ParseFrom(lines, i + 1, Max(0, nesting_level - 1),
                       Append(parsed, TemplateBlock(block_type, line, i, Max(0, nesting_level - 1))))
        ELSE IF block_type \in { "else", "else_if" }
        THEN ParseFrom(lines, i + 1, nesting_level,
                       Append(parsed, TemplateBlock(block_type, line, i, Max(0, nesting_level - 1))))
        ELSE ParseFrom(lines, i + 1, nesting_level,
                       Append(parsed, TemplateBlock(block_type, line, i, nesting_level)))

\* TemplateParser._parse_content
_parse_content(text) == ParseFrom(splitlines_keepends(text), 1, 0, << >>)

\* ParsedTemplate.total_lines
total_lines(text) == IF text = << >> THEN 0 ELSE Len(splitlines(text))

(***************************************************************************)
(* line_searcher.py: TemplateStructureAnalyzer                             *)
(***************************************************************************)
\* TemplateStructureAnalyzer.CONTROL_PATTERNS[k].search(s), k counted from 1
CONTROL_PATTERNS(k, s) ==
    \E i \in Opens(s) :
        CASE k = 1 -> KeywordAt(s, i, << "i", "f" >>)
          [] k = 2 -> ClosedKeywordAt(s, i, << "e", "l", "s", "e" >>)
          [] k = 3 -> ElseIfAt(s, i)
          [] k = 4 -> ClosedKeywordAt(s, i, << "e", "n", "d" >>)
          [] k = 5 -> KeywordAt(s, i, << "r", "a", "n", "g", "e" >>)
          [] k = 6 -> KeywordAt(s, i, << "w", "i", "t", "h" >>)
          [] k = 7 -> KeywordAt(s, i, << "d", "e", "f", "i", "n", "e" >>)
          [] k = 8 -> KeywordAt(s, i, << "t", "e", "m", "p", "l", "a", "t", "e" >>)
          [] k = 9 -> KeywordAt(s, i, << "b", "l", "o", "c", "k" >>)

\* TemplateStructureAnalyzer.is_control_line
is_control_line_NoEnd(line) == \E k \in (1..9) \ {4} : CONTROL_PATTERNS(k, line)

is_control_line_NoTemplate(line) == \E k \in (1..9) \ {8} : CONTROL_PATTERNS(k, line)

is_control_line(line) == \E k \in 1..9 : CONTROL_PATTERNS(k, line)

\* TemplateStructureAnalyzer.get_structure_map: line number -> is control line
get_structure_map(text) ==
    LET lines == splitlines(text) IN [line_num \in 1..Len(lines) |-> is_control_line(lines[line_num])]

(***************************************************************************)
(* executor.py and line_searcher.py: the content mutators                  *)
(***************************************************************************)
\* f"{{{{/* {stripped} */}}}}\n"
CommentedOut(stripped) ==
    << "{", "{", "/", "*", " " >> \o stripped \o << " ", "*", "/", "}", "}", "\n" >>

\* The set included_lines built from blocks_to_include
included_lines(blocks_to_include) ==
    UNION { b.start_line..b.end_line : b \in { blocks_to_include[i] : i \in 1..Len(blocks_to_include) } }

\* The list new_lines that the loop of IncrementalExecutor._create_partial_template
\* builds from original_lines and the set included: one entry per line
partial_template_new_lines(original_lines, included) ==
    [i \in 1..Len(original_lines) |->
        LET line == original_lines[i] IN
        IF i \in included
        THEN line
        ELSE LET stripped == rstrip(line, { "\n", "\r" }) IN
             IF strip(stripped) # << >> THEN CommentedOut(stripped) ELSE line]

\* The text IncrementalExecutor._create_partial_template writes
_create_partial_template_CommentBlank(text, blocks_to_include) ==
    LET original_lines == splitlines_keepends(text)
        new_lines == [i \in 1..Len(original_lines) |->
                        IF i \in included_lines(blocks_to_include)
                        THEN original_lines[i]
                        ELSE CommentedOut(rstrip(original_lines[i], { "\n", "\r" }))]
    IN join(new_lines)

_create_partial_template(text, blocks_to_include) ==
    join(partial_template_new_lines(splitlines_keepends(text),
                                    included_lines(blocks_to_include)))

\* The text BlockRangeExecutor._create_range_template writes
_create_range_template(text, blocks_to_include) ==
    LET original_lines == splitlines_keepends(text)
        new_lines == [i \in 1..Len(original_lines) |->
                        LET line == original_lines[i] IN
                        IF i \in included_lines(blocks_to_include)
                        THEN line
                        ELSE LET stripped == rstrip(line, { "\n", "\r" }) IN
                             IF strip(stripped) # << >> THEN CommentedOut(stripped) ELSE line]
    IN join(new_lines)

\* The list new_lines that the loop of LineBasedExecutor._create_partial_by_line
\* builds from lines and structure_map: one entry per line
partial_by_line_new_lines(lines, structure_map, end_line) ==
    [i \in 1..Len(lines) |->
        LET line == lines[i] IN
        IF i <= end_line THEN line
        ELSE IF (IF i \in DOMAIN structure_map THEN structure_map[i] ELSE FALSE)
        THEN line
        ELSE LET stripped == rstrip(line, { "\n", "\r" }) IN
             IF strip(stripped) # << >> THEN << "\n" >> ELSE line]

\* The text LineBasedExecutor._create_partial_by_line writes
_create_partial_by_line_ExclusiveCutoff(text, end_line) ==
    LET lines == splitlines_keepends(text)
        structure_map == get_structure_map(text)
        new_lines == [i \in 1..Len(lines) |->
                        LET line == lines[i] IN
                        IF i < end_line THEN line
                        ELSE IF (IF i \in DOMAIN structure_map THEN structure_map[i] ELSE FALSE)
                        THEN line
                        ELSE LET stripped == rstrip(line, { "\n", "\r" }) IN
                             IF strip(stripped) # << >> THEN << "\n" >> ELSE line]
    IN join(new_lines)

_create_partial_by_line(text, end_line) ==
    join(partial_by_line_new_lines(splitlines_keepends(text), get_structure_map(text),
                                   end_line))

\* template.blocks[:block_index + 1] of IncrementalExecutor.execute_up_to_block
BlocksUpTo_OnlyLast(all_blocks, block_index) ==
    SubSeq(all_blocks, block_index + 1, block_index + 1)

BlocksUpTo(all_blocks, block_index) == SubSeq(all_blocks, 1, block_index + 1)

\* template.blocks[start_block:end_block + 1] of BlockRangeExecutor.execute_block_range
BlocksInRange(all_blocks, start_block, end_block) ==
    SubSeq(all_blocks, start_block + 1, end_block + 1)

(***************************************************************************)
(* The mutator machine: one parsed template and the calls that write a     *)
(* reduced copy of it                                                      *)
(***************************************************************************)
MaxLines == 3

\* Lines a template is made of, each with its line break: a blank line, plain
\* content ended by "\n" and by a form feed, a control-open, a control-close
\* and a control-continuation line, a template action, an include
\* expression and a comment. No line holds "\r": read_file_content reads the file in text
\* mode, which turns "\r\n" and "\r" into "\n"
LineLibrary ==
    { << "\n" >>,
      << "a", "\n" >>,
      << "a", "\f" >>,
      << "{", "{", "i", "f", " ", "x", "}", "}", "\n" >>,
      << "{", "{", "-", " ", "e", "n", "d", " ", "}", "}", "\n" >>,
      << "{", "{", "e", "l", "s", "e", "}", "}", "\n" >>,
      << "{", "{", "t", "e", "m", "p", "l", "a", "t", "e", " ", "x", "}", "}", "\n" >>,
      << "{", "{", "i", "n", "c", "l", "u", "d", "e", " ", "x", "}", "}", "\n" >>,
      << "{", "{", "/", "*", "c", "*", "/", "}", "}", "\n" >> }

\* Templates of at most MaxLines lines; the last line may lack its line break
Documents ==
    LET whole == { join(ls) : ls \in UNION { [1..m -> LineLibrary] : m \in 0..MaxLines } } IN
    whole \cup { SubSeq(d, 1, Len(d) - 1) : d \in { w \in whole : w # << >> } }

\* TemplateParser.parse_file: ParsedTemplate(blocks=_parse_content(content),
\* original_content=content); one call then writes a reduced copy of it
MutatorInit ==
    /\ content \in Documents
    /\ blocks = _parse_content(content)
    /\ op = [kind |-> "none"]
    /\ written = << >>

\* IncrementalExecutor.execute_up_to_block(template, block_index), up to the
\* write_file_content of _create_partial_template, for the block indexes the
\* block searchers pass
CreatePartialTemplate ==
    /\ op.kind = "none"
    /\ \E block_index \in 0..(Len(blocks) - 1) :
         /\ op' = [kind |-> "execute_up_to_block", block_index |-> block_index,
                   blocks_to_include |-> BlocksUpTo(blocks, block_index)]
         /\ written' = _create_partial_template(content, BlocksUpTo(blocks, block_index))
    /\ UNCHANGED << content, blocks >>
    /\ UNCHANGED << searchVars, probeVars >>

\* BlockRangeExecutor.execute_block_range(template, start_block, end_block), up
\* to the write_file_content of _create_range_template
CreateRangeTemplate ==
    /\ op.kind = "none"
    /\ \E start_block \in 0..(Len(blocks) - 1), end_block \in 0..(Len(blocks) - 1) :
         /\ start_block <= end_block
         /\ op' = [kind |-> "execute_block_range", start_block |-> start_block,
                   end_block |-> end_block,
                   blocks_to_include |-> BlocksInRange(blocks, start_block, end_block)]
         /\ written' = _create_range_template(content, BlocksInRange(blocks, start_block, end_block))
    /\ UNCHANGED << content, blocks >>
    /\ UNCHANGED << searchVars, probeVars >>

\* LineBasedExecutor.execute_up_to_line(template, end_line), up to the
\* write_file_content of _create_partial_by_line
CreatePartialByLine ==
    /\ op.kind = "none"
    /\ \E end_line \in 0..total_lines(content) :
         /\ op' = [kind |-> "execute_up_to_line", end_line |-> end_line]
         /\ written' = _create_partial_by_line(content, end_line)
    /\ UNCHANGED << content, blocks >>
    /\ UNCHANGED << searchVars, probeVars >>

\* No search runs in the mutator machine
SearchIdle ==
    /\ searcher = "none"
    /\ total = 0
    /\ start_from = 0
    /\ pc = "idle"
    /\ low = 0
    /\ high = 0
    /\ last_successful = 0
    /\ failing_index = None
    /\ last_successful_result = None
    /\ step_number = 0
    /\ steps = << >>
    /\ calls = << >>
    /\ search_result = NoResult

InitMutator ==
    /\ SearchIdle
    /\ MutatorInit
    /\ probe_pc = "idle"
    /\ temp_dir = None
    /\ temp_dirs = {}
    /\ original_file = content
    /\ mkdtemp_count = 0
    /\ runs = << >>
    /\ writes = << >>
    /\ outcome = None

NextMutator ==
    \/ CreatePartialTemplate
    \/ CreateRangeTemplate
    \/ CreatePartialByLine

SpecMutator == InitMutator /\ [][NextMutator]_vars


(***************************************************************************)
(* Vocabulary of the mutator properties                                    *)
(***************************************************************************)
IsBlank(line) == strip(line) = << >>

\* The kind the Block Model gave line i of the template: that of the unit
\* on the line, "blank" when the line made no unit
KindAt(i) ==
    LET units == { k \in 1..Len(blocks) : blocks[k].start_line = i } IN
    IF units = {} THEN "blank" ELSE blocks[CHOOSE k \in units : TRUE].block_type

ControlOpen == { "if", "range", "with", "define" }

ControlClose == { "end" }

ControlContinuation == { "else", "else_if" }

CrossReference == { "template", "include" }

\* How many units of block_list have a kind in kinds
CountKinds(block_list, kinds) ==
    Cardinality({ i \in 1..Len(block_list) : block_list[i].block_type \in kinds })

LineCutoff == op.kind = "execute_up_to_line"

\* C6: Balance preservation in line-cutoff mode. For every cutoff, the reduced
\* copy has the lines of the original, every line whose kind is control-open,
\* control-close or control-continuation stands unchanged at its position,
\* and the reduced copy parses to as many control-open and as many
\* control-close units as the original.
C6_BalancePreservation ==
    LineCutoff =>
        LET original == splitlines_keepends(content)
            reduced == splitlines_keepends(written)
            reparsed == _parse_content(written)
        IN
        /\ Len(reduced) = Len(original)
        /\ \A i \in 1..Len(original) :
              KindAt(i) \in ControlOpen \cup ControlClose \cup ControlContinuation
                  => reduced[i] = original[i]
        /\ CountKinds(reparsed, ControlOpen) = CountKinds(blocks, ControlOpen)
        /\ CountKinds(reparsed, ControlClose) = CountKinds(blocks, ControlClose)

\* An end on line 3 survives cutoff 1, which blanks the content of line 2
C6_Witness ==
    /\ LineCutoff
    /\ op.end_line = 1
    /\ total_lines(content) = 3
    /\ KindAt(1) = "if"
    /\ KindAt(2) = "plain"
    /\ KindAt(3) = "end"
    /\ splitlines_keepends(written)[2] = << "\n" >>
    /\ splitlines_keepends(written)[3] = splitlines_keepends(content)[3]

\* C7 as claimed: every line after the cutoff whose kind is template or
\* include stands unchanged in the reduced copy.
C7_CrossReferencePassThrough ==
    LineCutoff =>
        LET original == splitlines_keepends(content)
            reduced == splitlines_keepends(written)
        IN
        \A i \in 1..Len(original) :
            (i > op.end_line /\ KindAt(i) \in CrossReference)
                => (i <= Len(reduced) /\ reduced[i] = original[i])

\* C7: Cross-reference pass-through in line-cutoff mode, amended. Every line
\* after the cutoff whose kind is template stands unchanged in the reduced
\* copy; a line after the cutoff whose kind is include and that matches none
\* of the analyzer's control patterns is replaced by an empty line.
C7_TemplatePassThrough ==
    LineCutoff =>
        LET original == splitlines_keepends(content)
            reduced == splitlines_keepends(written)
        IN
        /\ Len(reduced) = Len(original)
        /\ \A i \in 1..Len(original) :
              /\ (i > op.end_line /\ KindAt(i) = "template") => reduced[i] = original[i]
              /\ (i > op.end_line /\ KindAt(i) = "include"
                     /\ ~is_control_line(WithoutBreak(original[i])))
                    => reduced[i] = << "\n" >>

\* Cutoff 1 of a template whose line 2 is a template action and whose line 3
\* is an include expression
C7_Witness ==
    /\ LineCutoff
    /\ op.end_line = 1
    /\ total_lines(content) = 3
    /\ KindAt(2) = "template"
    /\ KindAt(3) = "include"
    /\ splitlines_keepends(written)[2] = splitlines_keepends(content)[2]
    /\ splitlines_keepends(written)[3] = << "\n" >>

\* C8: Idempotence of full inclusion. execute_up_to_block with the last block
\* index and execute_up_to_line with the total line count write the original
\* content, character for character.
C8_FullInclusion ==
    (\/ op.kind = "execute_up_to_block" /\ op.block_index = Len(blocks) - 1
     \/ LineCutoff /\ op.end_line = total_lines(content))
        => written = content

\* Full block inclusion of a template with a blank line between two units
\* and no line break after its last line
C8_Witness ==
    /\ op.kind = "execute_up_to_block"
    /\ op.block_index = Len(blocks) - 1
    /\ total_lines(content) = 3
    /\ KindAt(1) # "blank"
    /\ KindAt(2) = "blank"
    /\ KindAt(3) # "blank"
    /\ content[Len(content)] \notin LineBreaks
    /\ written = content

\* Every control-close unit has its control-open before it and none is left open
RECURSIVE Depths(_, _)
Depths(block_list, k) ==
    IF k = 0 THEN 0
    ELSE Depths(block_list, k - 1)
         + (IF block_list[k].block_type \in ControlOpen THEN 1
            ELSE IF block_list[k].block_type \in ControlClose THEN -1 ELSE 0)

Balanced(block_list) ==
    /\ \A k \in 1..Len(block_list) : Depths(block_list, k) >= 0
    /\ Depths(block_list, Len(block_list)) = 0

\* How many lines with a kind in kinds stand unchanged in the reduced copy
VerbatimCount(kinds) ==
    LET original == splitlines_keepends(content)
        reduced == splitlines_keepends(written)
    IN
    Cardinality({ i \in 1..Len(original) :
                    KindAt(i) \in kinds /\ i <= Len(reduced) /\ reduced[i] = original[i] })

\* C9: Control balance of block-granularity probes, as claimed: for a balanced
\* template and any cut point the block searchers probe, the reduced copy
\* keeps as many control-open lines unchanged as control-close lines.
C9_BlockProbesBalanced ==
    (op.kind = "execute_up_to_block" /\ Balanced(blocks))
        => VerbatimCount(ControlOpen) = VerbatimCount(ControlClose)

\* Line i lies in a block of blocks_to_include
Covered(i) ==
    \E k \in 1..Len(op.blocks_to_include) :
        op.blocks_to_include[k].start_line <= i /\ i <= op.blocks_to_include[k].end_line

\* The text of a line wrapped as one comment line
WrappedLine(line) ==
    << "{", "{", "/", "*", " " >> \o WithoutBreak(line) \o << " ", "*", "/", "}", "}", "\n" >>

BlockReduction == op.kind \in { "execute_up_to_block", "execute_block_range" }

\* C10: Block-range reduction output, as claimed: the reduced copy has one line
\* per original line, in order: the line itself when an included unit covers
\* it or when it is blank, else its text wrapped as one comment line.
C10_BlockRangeOutput ==
    BlockReduction =>
        LET original == splitlines_keepends(content)
            reduced == splitlines_keepends(written)
        IN
        /\ Len(reduced) = Len(original)
        /\ \A i \in 1..Len(original) :
              reduced[i] =
                  (IF Covered(i) \/ IsBlank(original[i])
                   THEN original[i]
                   ELSE WrappedLine(original[i]))

\* C11: Line-cutoff reduction output. For every cutoff N the reduced copy has
\* as many lines as the original; lines 1..N are the original lines; a line
\* after N that the analyzer does not classify as a control line is an empty
\* line when the original line is non-blank and the original line when it is
\* blank.
C11_LineCutoffOutput ==
    LineCutoff =>
        LET original == splitlines_keepends(content)
            reduced == splitlines_keepends(written)
        IN
        /\ Len(reduced) = Len(original)
        /\ Len(splitlines(written)) = total_lines(content)
        /\ \A i \in 1..Len(original) :
              /\ i <= op.end_line => reduced[i] = original[i]
              /\ (i > op.end_line /\ ~is_control_line(WithoutBreak(original[i])))
                    => reduced[i] = (IF IsBlank(original[i]) THEN original[i] ELSE << "\n" >>)

\* Cutoff 1 of three lines: line 2 is content ended by a form feed, line 3
\* is blank
C11_Witness ==
    /\ LineCutoff
    /\ op.end_line = 1
    /\ total_lines(content) = 3
    /\ KindAt(1) = "plain"
    /\ splitlines_keepends(content)[2] = << "a", "\f" >>
    /\ KindAt(3) = "blank"
    /\ splitlines_keepends(written)[1] = splitlines_keepends(content)[1]
    /\ splitlines_keepends(written)[2] = << "\n" >>
    /\ splitlines_keepends(written)[3] = splitlines_keepends(content)[3]

\* Line i of the template is left out by the call made: no included block
\* covers it (block calls), or it lies after the cutoff and the analyzer
\* does not keep it (line calls)
Excluded(i) ==
    IF BlockReduction THEN ~Covered(i)
    ELSE i > op.end_line /\ ~is_control_line(WithoutBreak(splitlines_keepends(content)[i]))

\* One line that the template grammar reads as nothing: an empty line, or a
\* comment action that opens the line and whose first comment terminator
\* is the one that closes the line
InertLine(line) ==
    \/ line = << "\n" >>
    \/ /\ LiteralAt(line, 1, << "{", "{", "/", "*" >>)
       /\ \A j \in 1..(Len(line) - 1) : line[j] \notin LineBreaks
       /\ LET closes == { j \in 5..Len(line) : LiteralAt(line, j, << "*", "/" >>) } IN
          /\ closes # {}
          /\ Min(closes) = Len(line) - 4
          /\ LiteralAt(line, Len(line) - 2, << "}", "}", "\n" >>)

\* C12: Inert neutralization, as claimed: every left-out non-blank line of
\* kind plain, expression or comment stands in the reduced copy as one inert
\* line, an empty line or one comment that encloses the whole text of the
\* line, also when the line is a comment itself.
C12_InertNeutralization ==
    op.kind # "none" =>
        LET original == splitlines_keepends(content)
            reduced == splitlines_keepends(written)
        IN
        /\ Len(reduced) = Len(original)
        /\ \A i \in 1..Len(original) :
              (Excluded(i) /\ KindAt(i) \in { "plain", "expression", "comment" })
                  => InertLine(reduced[i])

(***************************************************************************)
(* utils.py: TempChartManager, and the probe calls of executor.py and      *)
(* line_searcher.py step by step: with TempChartManager(...) as            *)
(* temp_manager: create_chart_copy(); write the reduced template;          *)
(* run_template()                                                          *)
(***************************************************************************)
MaxProbes == 3

\* The parsed templates the probe calls are made on: two lines, each plain
\* content or a control-open line
ProbeDocuments ==
    LET library == { << "a", "\n" >>, << "{", "{", "i", "f", " ", "x", "}", "}", "\n" >> } IN
    { join(<< first, second >>) : first \in library, second \in library }

\* Chart directories are numbered: the original chart (self.chart_path,
\* TempChartManager.original_path) is 0 and the chart copy in the n-th
\* directory made by mkdtemp is n
original_path == 0

\* target_file = temp_chart / rel_path, with rel_path the template's path
\* inside the chart
target_file_InPlace(temp_chart) == [root |-> original_path, rel_path |-> "templates/template.yaml"]

target_file(temp_chart) == [root |-> temp_chart, rel_path |-> "templates/template.yaml"]

\* TempChartManager.cleanup: shutil.rmtree(self.temp_dir) when temp_dir is set
cleanup_LeavesDirectory(dirs, dir) == dirs

cleanup(dirs, dir) == { d \in dirs : d.id \notin dir }

\* The end of a probe call: return result, or an exception leaving the call
Returned(result) == [kind |-> "return", result |-> result]

Raised(where) == [kind |-> "raise", at |-> where]

\* The text the call op writes into the chart copy
reduced_text ==
    CASE op.kind = "execute_up_to_block" -> _create_partial_template(content, op.blocks_to_include)
      [] op.kind = "execute_block_range" -> _create_range_template(content, op.blocks_to_include)
      [] op.kind = "execute_up_to_line" -> _create_partial_by_line(content, op.end_line)

\* The calls a searcher can make on the parsed template
ProbeCalls ==
    { [kind |-> "execute_up_to_block", block_index |-> i, blocks_to_include |-> BlocksUpTo(blocks, i)] :
        i \in 0..(Len(blocks) - 1) }
    \cup { [kind |-> "execute_up_to_line", end_line |-> n] : n \in 1..total_lines(content) }
    \cup { [kind |-> "execute_block_range", start_block |-> i, end_block |-> j,
            blocks_to_include |-> BlocksInRange(blocks, i, j)] :
            i \in 0..(Len(blocks) - 1), j \in 0..(Len(blocks) - 1) }

ProbeInit ==
    /\ content \in ProbeDocuments
    /\ blocks = _parse_content(content)
    /\ op = [kind |-> "none"]
    /\ written = << >>
    /\ probe_pc = "idle"
    /\ temp_dir = None
    /\ temp_dirs = {}
    /\ original_file = content
    /\ mkdtemp_count = 0
    /\ runs = << >>
    /\ writes = << >>
    /\ outcome = None

\* IncrementalExecutor.validate_full_template, the first oracle call of
\* BinarySearcher.search: run_template(str(self.chart_path))
ValidateFullTemplate ==
    /\ probe_pc = "idle"
    /\ runs = << >>
    /\ mkdtemp_count = 0
    /\ \E proc \in ProcessOutcomes :
         /\ runs' = Append(runs, [chart_path |-> original_path])
         /\ outcome' = Some(Returned(run_template(original_path, proc)))
    /\ UNCHANGED << probe_pc, temp_dir, temp_dirs, original_file, mkdtemp_count, writes >>
    /\ UNCHANGED << searchVars, mutatorVars >>

\* A probe call begins: TempChartManager(...).__enter__ makes the temporary
\* directory with tempfile.mkdtemp, or mkdtemp raises and the exception
\* leaves search()
EnterProbe ==
    /\ probe_pc = "idle"
    /\ mkdtemp_count < MaxProbes
    /\ \E call \in ProbeCalls : op' = call
    /\ \/ /\ mkdtemp_count' = mkdtemp_count + 1
          /\ temp_dir' = Some(mkdtemp_count + 1)
          /\ temp_dirs' = temp_dirs \cup { [id |-> mkdtemp_count + 1, chart |-> None] }
          /\ probe_pc' = "entered"
          /\ outcome' = None
       \/ /\ outcome' = Some(Raised("mkdtemp"))
          /\ probe_pc' = "aborted"
          /\ UNCHANGED << mkdtemp_count, temp_dir, temp_dirs >>
    /\ UNCHANGED << original_file, runs, writes, content, blocks, written >>
    /\ UNCHANGED searchVars

\* temp_manager.create_chart_copy(): shutil.copytree(original, temp_dir / "chart");
\* when copytree raises, the copy made so far stays in the directory
CreateChartCopy ==
    /\ probe_pc = "entered"
    /\ \/ /\ temp_dirs' = { IF d.id \in temp_dir THEN [d EXCEPT !.chart = Some(original_file)] ELSE d :
                             d \in temp_dirs }
          /\ probe_pc' = "copied"
          /\ UNCHANGED outcome
       \/ /\ \E partial \in { None, Some(original_file) } :
               temp_dirs' = { IF d.id \in temp_dir THEN [d EXCEPT !.chart = partial] ELSE d :
                               d \in temp_dirs }
          /\ outcome' = Some(Raised("copytree"))
          /\ probe_pc' = "exit"
    /\ UNCHANGED << temp_dir, original_file, mkdtemp_count, runs, writes >>
    /\ UNCHANGED << searchVars, mutatorVars >>

\* _create_partial_template / _create_range_template / _create_partial_by_line:
\* write_file_content(target_file, ...), which can raise
WritePartial ==
    /\ probe_pc = "copied"
    /\ LET target == target_file(TheValue(temp_dir)) IN
       \/ /\ written' = reduced_text
          /\ writes' = Append(writes, target)
          /\ IF target.root = original_path
             THEN /\ original_file' = reduced_text
                  /\ UNCHANGED temp_dirs
             ELSE /\ temp_dirs' = { IF d.id = target.root THEN [d EXCEPT !.chart = Some(reduced_text)] ELSE d :
                                     d \in temp_dirs }
                  /\ UNCHANGED original_file
          /\ probe_pc' = "written"
          /\ UNCHANGED outcome
       \/ /\ outcome' = Some(Raised("write_file_content"))
          /\ probe_pc' = "exit"
          /\ UNCHANGED << written, writes, original_file, temp_dirs >>
    /\ UNCHANGED << temp_dir, mkdtemp_count, runs, content, blocks, op >>
    /\ UNCHANGED searchVars

\* return self.executor.run_template(str(temp_chart))
RunTemplate ==
    /\ probe_pc = "written"
    /\ \E proc \in ProcessOutcomes :
         /\ runs' = Append(runs, [chart_path |-> TheValue(temp_dir)])
         /\ outcome' = Some(Returned(run_template(TheValue(temp_dir), proc)))
    /\ probe_pc' = "exit"
    /\ UNCHANGED << temp_dir, temp_dirs, original_file, mkdtemp_count, writes >>
    /\ UNCHANGED << searchVars, mutatorVars >>

\* The with block is left: TempChartManager.__exit__ calls cleanup(); then the
\* result goes back to the search loop, or the exception leaves search()
ExitProbe ==
    /\ probe_pc = "exit"
    /\ temp_dirs' = cleanup(temp_dirs, temp_dir)
    /\ temp_dir' = None
    /\ probe_pc' = IF TheValue(outcome).kind = "raise" THEN "aborted" ELSE "idle"
    /\ UNCHANGED << original_file, mkdtemp_count, runs, writes, outcome >>
    /\ UNCHANGED << searchVars, mutatorVars >>

\* search() returns its result
SearchReturn ==
    /\ probe_pc = "idle"
    /\ probe_pc' = "returned"
    /\ UNCHANGED << temp_dir, temp_dirs, original_file, mkdtemp_count, runs, writes, outcome >>
    /\ UNCHANGED << searchVars, mutatorVars >>

InitProbe == SearchIdle /\ ProbeInit

NextProbe ==
    \/ ValidateFullTemplate
    \/ EnterProbe
    \/ CreateChartCopy
    \/ WritePartial
    \/ RunTemplate
    \/ ExitProbe
    \/ SearchReturn

SpecProbe == InitProbe /\ [][NextProbe]_vars

(***************************************************************************)
(* Vocabulary of the probe properties                                      *)
(***************************************************************************)
\* Control is in the search loop or has left search()
OutsideProbe == probe_pc \in { "idle", "returned", "aborted" }

\* C13: Scoped release of the working-tree copy. At most one temporary
\* directory exists at any time, it is the one of the probe call in progress,
\* and none exists while control is in the search loop, after search()
\* returned, or after an exception left the call, whatever way the probe ended.
C13_ScopedRelease ==
    /\ Cardinality(temp_dirs) <= 1
    /\ \A d \in temp_dirs : d.id \in temp_dir /\ d.id = mkdtemp_count
    /\ OutsideProbe => (temp_dirs = {} /\ temp_dir = None)
    /\ temp_dir # None => (~OutsideProbe /\ \E d \in temp_dirs : d.id \in temp_dir)

\* The third probe ended by an exception of copytree, after a probe whose
\* helm run returned: no directory is left
C13_Witness ==
    /\ probe_pc = "aborted"
    /\ outcome = Some(Raised("copytree"))
    /\ mkdtemp_count = 3
    /\ Len(runs) = 2
    /\ temp_dirs = {}

\* C14: Isolation of every oracle evaluation, as claimed: every run_template
\* call of a search, its first one included, is given a temporary copy, never
\* the original chart, and no two calls are given the same copy.
C14_IsolatedEvaluation ==
    /\ \A i \in 1..Len(runs) : runs[i].chart_path # original_path
    /\ \A i, j \in 1..Len(runs) : i # j => runs[i].chart_path # runs[j].chart_path

\* C15: No mutation of the original. Every step leaves original_content, the
\* list of units and the original chart's template file as they are, and
\* every write_file_content call targets the temporary directory of the
\* probe call in progress.
C15_OriginalUntouched ==
    [][/\ content' = content
       /\ blocks' = blocks
       /\ original_file' = original_file
       /\ writes' # writes =>
            /\ Len(writes') = Len(writes) + 1
            /\ writes'[Len(writes')].root \in temp_dir
            /\ \E d \in temp_dirs : d.id = writes'[Len(writes')].root]_vars

\* Two probes wrote a reduced copy that differs from the original, and the
\* search returned: the original file is the parsed content
C15_Witness ==
    /\ probe_pc = "returned"
    /\ Len(writes) = 2
    /\ written # content
    /\ original_file = content
    /\ blocks = _parse_content(content)

(***************************************************************************)
(* More properties of the searchers                                        *)
(***************************************************************************)
Linear == searcher \notin BisectionSearchers

\* C17: Linear strategy. On a template with at least one unit/line, the
\* step-by-step searchers probe the cutoffs start, start + 1, ... one per
\* step and make no other oracle call; while the loop runs every step has
\* passed; a search that found an error ends with the one failing step and
\* returns its cutoff as the failing index; a search that found none has one
\* passing step per cutoff from start to the last unit/line and returns the
\* last unit/line (n - 1 for blocks, n for lines) as last successful.
C17_LinearStrategy ==
    (Linear /\ total > 0) =>
        /\ Len(calls) = Len(steps)
        /\ \A i \in 1..Len(steps) :
              /\ StepCut(steps[i]) = start_from + i - 1
              /\ steps[i].step_number = i
              /\ calls[i].cut = start_from + i - 1
              /\ steps[i].result = calls[i].result
        /\ \A i \in 1..(Len(steps) - 1) : passed(steps[i])
        /\ pc = "loop" => \A i \in 1..Len(steps) : passed(steps[i])
        /\ Done =>
              /\ search_result.steps = steps
              /\ IF search_result.found_error
                 THEN /\ steps # << >>
                      /\ ~passed(steps[Len(steps)])
                      /\ FailingOf(search_result) = Some(StepCut(steps[Len(steps)]))
                 ELSE /\ \A i \in 1..Len(steps) : passed(steps[i])
                      /\ Len(steps) = Max(0, LastIndex - start_from + 1)
                      /\ LastGoodOf(search_result) = Some(LastIndex)

\* StepByStepSearcher from block 2 of 5: blocks 2 and 3 pass, block 4 fails
C17_Witness ==
    /\ Done
    /\ searcher = "StepByStepSearcher"
    /\ total = 5
    /\ start_from = 2
    /\ Cuts = << 2, 3, 4 >>
    /\ passed(steps[1]) /\ passed(steps[2]) /\ ~passed(steps[3])
    /\ search_result.found_error
    /\ search_result.failing_block_index = Some(4)
    /\ search_result.last_successful_block_index = Some(3)

(***************************************************************************)
(* The parser machine: TemplateParser.parse_file on one template text      *)
(***************************************************************************)
\* The texts given to the parser: those of Documents, and lines of blanks,
\* expression lines and lines with an if action and an end action
ParserDocuments ==
    LET library == LineLibrary \cup
                     { << " ", "\n" >>, << "{", "{", "x", "}", "}", "\n" >>,
                       << "{", "{", "i", "f", " ", "x", "}", "}",
                          "{", "{", "e", "n", "d", "}", "}", "\n" >> }
        whole == { join(ls) : ls \in UNION { [1..m -> library] : m \in 0..MaxLines } }
    IN whole \cup { SubSeq(d, 1, Len(d) - 1) : d \in { w \in whole : w # << >> } }

ParserInit ==
    /\ content \in ParserDocuments
    /\ blocks = << >>
    /\ op = [kind |-> "none"]
    /\ written = << >>
    /\ probe_pc = "idle"
    /\ temp_dir = None
    /\ temp_dirs = {}
    /\ original_file = content
    /\ mkdtemp_count = 0
    /\ runs = << >>
    /\ writes = << >>
    /\ outcome = None

\* TemplateParser.parse_file: blocks = self._parse_content(content, file_path)
ParseFile ==
    /\ op.kind = "none"
    /\ blocks' = _parse_content(content)
    /\ op' = [kind |-> "parse_file"]
    /\ UNCHANGED << content, written >>
    /\ UNCHANGED << searchVars, probeVars >>

InitParser == SearchIdle /\ ParserInit

NextParser == ParseFile

SpecParser == InitParser /\ [][NextParser]_vars

(***************************************************************************)
(* Vocabulary of the parser properties                                     *)
(***************************************************************************)
Parsed == op.kind = "parse_file"

\* Control-open units minus control-close units among the first k units
OpenMinusClose(k) ==
    CountKinds(SubSeq(blocks, 1, k), ControlOpen) - CountKinds(SubSeq(blocks, 1, k), ControlClose)

\* The running depth after the first k units: an open adds one, a close
\* takes one away but not below zero
RECURSIVE RunningDepth(_)
RunningDepth(k) ==
    IF k = 0 THEN 0
    ELSE LET before == RunningDepth(k - 1) IN
         IF blocks[k].block_type \in ControlOpen THEN before + 1
         ELSE IF blocks[k].block_type \in ControlClose /\ before > 0 THEN before - 1
         ELSE before

\* C18 as claimed: the nesting_level of the unit after the first k units is
\* the number of control-open units minus the number of control-close units
\* among them, clamped at zero, and that number is 0 at the end of the
\* template.
C18_NestingIsOpenMinusClose ==
    Parsed =>
        /\ \A k \in 1..(Len(blocks) - 1) :
              blocks[k + 1].nesting_level = (IF OpenMinusClose(k) > 0 THEN OpenMinusClose(k) ELSE 0)
        /\ ~(OpenMinusClose(Len(blocks)) > 0)

\* C18: Nesting invariant of the Block Model, amended. The nesting_level of
\* a unit is never negative; for a control-open unit and for a unit that is
\* no control construct it is the running depth before the unit, for a
\* control-close unit the running depth after it, for a continuation unit
\* the running depth before it less one, not below zero, where the running
\* depth is clamped at zero at each close. In a template whose control
\* constructs are balanced the running depth is the open-minus-close count
\* of the prefix and is 0 at the end.
C18_NestingInvariant ==
    Parsed =>
        /\ \A k \in 1..Len(blocks) :
              LET before == RunningDepth(k - 1)
                  kind == blocks[k].block_type
              IN
              /\ blocks[k].nesting_level >= 0
              /\ blocks[k].nesting_level =
                    (IF kind \in ControlClose THEN RunningDepth(k)
                     ELSE IF kind \in ControlContinuation
                     THEN (IF before > 0 THEN before - 1 ELSE 0)
                     ELSE before)
        /\ Balanced(blocks) =>
              /\ \A k \in 0..Len(blocks) : RunningDepth(k) = OpenMinusClose(k)
              /\ RunningDepth(Len(blocks)) = 0

\* if / else / end: all three units are recorded at depth 0
C18_Witness ==
    /\ Parsed
    /\ Len(blocks) = 3
    /\ blocks[1].block_type = "if" /\ blocks[1].nesting_level = 0
    /\ blocks[2].block_type = "else" /\ blocks[2].nesting_level = 0
    /\ blocks[3].block_type = "end" /\ blocks[3].nesting_level = 0
    /\ Balanced(blocks)

\* A line of whitespace only
BlankLine(line) == \A k \in 1..Len(line) : line[k] \in Whitespace

\* C19: Totality and shape of parsing. The units are those of the non-blank
\* lines, one each and none for a blank line, in increasing line order, each
\* with start_line = end_line = the number of its line and the line as
\* content; the empty text gives no unit and total_lines = 0.
C19_ParseShape ==
    Parsed =>
        LET lines == splitlines_keepends(content)
            non_blank == { i \in 1..Len(lines) : ~BlankLine(lines[i]) }
        IN
        /\ Len(blocks) = Cardinality(non_blank)
        /\ { blocks[k].start_line : k \in 1..Len(blocks) } = non_blank
        /\ \A k \in 1..Len(blocks) :
              /\ blocks[k].start_line = blocks[k].end_line
              /\ blocks[k].content = lines[blocks[k].start_line]
        /\ \A k \in 1..(Len(blocks) - 1) : blocks[k].start_line < blocks[k + 1].start_line
        /\ total_lines(content) = Len(lines)
        /\ content = << >> => (blocks = << >> /\ total_lines(content) = 0)

\* Three lines, the second of whitespace only: units on lines 1 and 3
C19_Witness ==
    /\ Parsed
    /\ total_lines(content) = 3
    /\ splitlines_keepends(content)[2] = << " ", "\n" >>
    /\ Len(blocks) = 2
    /\ blocks[1].start_line = 1 /\ blocks[1].end_line = 1
    /\ blocks[2].start_line = 3 /\ blocks[2].end_line = 3

\* C20: Last-successful-render snapshot, as claimed: when a bisection search,
\* at block or at line granularity, found an error and a probe passed, the
\* returned result carries, as last_successful_result, the HelmResult of the
\* passing probe at the last successful cut point.
C20_LastSuccessfulSnapshot ==
    (Done /\ Bisecting /\ search_result.found_error /\ \E i \in 1..Len(steps) : passed(steps[i])) =>
        /\ "last_successful_result" \in DOMAIN search_result
        /\ \E i \in 1..Len(steps) :
              /\ passed(steps[i])
              /\ Some(StepCut(steps[i])) = LastGoodOf(search_result)
              /\ search_result.last_successful_result = Some(steps[i].result)

\* How many oracle calls precede the first probe of a cut point: the
\* validate_full_template call of BinarySearcher
ProbeOffset == IF searcher = "BinarySearcher" THEN 1 ELSE 0

\* The oracle calls made on a reduced copy
ProbeCallIndexes == { i \in 1..Len(calls) : calls[i].chart = "temp" }

\* C21 as claimed: within one search no cut point is given to the oracle
\* twice; in particular a cut point whose probe failed is not run again.
C21_NoCutEvaluatedTwice ==
    \A i, j \in ProbeCallIndexes : i # j => calls[i].cut # calls[j].cut

\* C21: No automatic retry, amended. The steps of a search probe pairwise
\* different cut points, each by one oracle call, in order; the only other
\* oracle call on a reduced copy is the one the bisection searchers make
\* after the loop, once, at the failing cut point they return, which a
\* failed step of the trail has probed before.
C21_NoRetryInLoop ==
    /\ \A i, j \in 1..Len(steps) : i # j => StepCut(steps[i]) # StepCut(steps[j])
    /\ \A i \in 1..Len(steps) :
          /\ calls[ProbeOffset + i].chart = "temp"
          /\ calls[ProbeOffset + i].cut = StepCut(steps[i])
          /\ calls[ProbeOffset + i].result = steps[i].result
    /\ Len(calls) > ProbeOffset + Len(steps) =>
          /\ Len(calls) = ProbeOffset + Len(steps) + 1
          /\ Done /\ Bisecting /\ search_result.found_error
          /\ calls[Len(calls)].chart = "temp"
          /\ Some(calls[Len(calls)].cut) = FailingOf(search_result)
          /\ \E i \in 1..Len(steps) :
                ~passed(steps[i]) /\ StepCut(steps[i]) = calls[Len(calls)].cut

\* LineBinarySearcher on 3 lines: line 2 fails, line 1 passes, and the run
\* after the loop, on line 2 again, passes
C21_Witness ==
    /\ Done
    /\ searcher = "LineBinarySearcher"
    /\ total = 3
    /\ Cuts = << 2, 1 >>
    /\ Len(calls) = 3
    /\ calls[3].cut = 2
    /\ ~calls[1].result.success
    /\ calls[3].result.success
    /\ search_result.failing_line = Some(2)

\* C22: Step trail numbering. In every searcher the recorded steps are in
\* probe order: the i-th step has step_number i (so the numbers have no gap
\* and no duplicate), records the cut point and the oracle result of the
\* i-th probe, and passes exactly when that result succeeded; the returned
\* result carries this very list.
C22_StepTrailNumbering ==
    /\ step_number \in {0, Len(steps)}
    /\ \A i \in 1..Len(steps) :
          /\ steps[i].step_number = i
          /\ calls[ProbeOffset + i].chart = "temp"
          /\ StepCut(steps[i]) = calls[ProbeOffset + i].cut
          /\ steps[i].result = calls[ProbeOffset + i].result
          /\ passed(steps[i]) = calls[ProbeOffset + i].result.success
    /\ Done => search_result.steps = steps

\* LineStepByStepSearcher started at line 3 of 5: lines 3 and 4 pass, line 5
\* fails; the steps are numbered 1, 2, 3
C22_Witness ==
    /\ Done
    /\ searcher = "LineStepByStepSearcher"
    /\ total = 5
    /\ start_from = 3
    /\ Cuts = << 3, 4, 5 >>
    /\ [i \in 1..3 |-> search_result.steps[i].step_number] = << 1, 2, 3 >>
    /\ [i \in 1..3 |-> passed(search_result.steps[i])] = << TRUE, TRUE, FALSE >>

\* The positions in the trail of the steps whose probe failed
FailedSteps == { i \in 1..Len(steps) : ~passed(steps[i]) }

\* The last step of the trail whose probe failed
LastFailedStep == steps[CHOOSE i \in FailedSteps : \A j \in FailedSteps : j <= i]

\* C23: Bisection step rule. While low <= high a bisection searcher makes
\* one probe, at mid = floor((low + high) / 2); a pass sets last-known-good
\* to mid and low to mid + 1 and leaves high and the failing candidate, a
\* fail sets the failing candidate to mid and high to mid - 1 and leaves low
\* and last-known-good. The loop is left exactly when low > high, without a
\* further step, and the failing index returned is the cut point of the last
\* failed step of the trail (no error is reported when no step failed).
C23_BisectionStepRule ==
    [][ (Bisecting /\ pc = "loop") =>
          IF low <= high
          THEN LET mid == (low + high) \div 2
                   step == steps'[Len(steps')]
               IN
               /\ pc' = "loop"
               /\ steps' = Append(steps, step)
               /\ StepCut(step) = mid
               /\ calls'[Len(calls')].cut = mid
               /\ IF passed(step)
                  THEN /\ last_successful' = mid
                       /\ low' = mid + 1
                       /\ UNCHANGED << high, failing_index >>
                  ELSE /\ failing_index' = Some(mid)
                       /\ high' = mid - 1
                       /\ UNCHANGED << low, last_successful >>
          ELSE /\ pc' = "done"
               /\ UNCHANGED << steps, low, high, last_successful, failing_index >>
               /\ search_result'.found_error = (FailedSteps # {})
               /\ search_result'.found_error =>
                     FailingOf(search_result') = Some(StepCut(LastFailedStep))
      ]_vars

\* LineBinarySearcher on 5 lines: line 3 fails, line 1 passes, line 2 fails;
\* the loop ends with low = 2 > high = 1 and line 2 is returned
C23_Witness ==
    /\ Done
    /\ searcher = "LineBinarySearcher"
    /\ total = 5
    /\ Cuts = << 3, 1, 2 >>
    /\ [i \in 1..3 |-> passed(steps[i])] = << FALSE, TRUE, FALSE >>
    /\ low = 2 /\ high = 1
    /\ last_successful = 1
    /\ search_result.failing_line = Some(2)

\* The lines of the template an entry list of a reduction carries unchanged
EmittedVerbatim(new_lines) ==
    LET original == splitlines_keepends(content) IN
    { i \in 1..Len(new_lines) : new_lines[i] = original[i] }

\* C24: Monotone inclusion of the mutator. For the reduction written at cut
\* point b and every cut point a <= b of the same template, each line the
\* prefix reduction at a carries unchanged is carried unchanged by the
\* reduction at b: in block-prefix mode for block indexes a <= b, in
\* line-cutoff mode for cutoffs a <= b.
C24_MonotoneInclusion ==
    LET original_lines == splitlines_keepends(content) IN
    /\ op.kind = "execute_up_to_block" =>
          LET at_b == partial_template_new_lines(
                          original_lines, included_lines(BlocksUpTo(blocks, op.block_index)))
          IN
          /\ written = join(at_b)
          /\ \A a \in 0..op.block_index :
                EmittedVerbatim(partial_template_new_lines(
                                    original_lines, included_lines(BlocksUpTo(blocks, a))))
                    \subseteq EmittedVerbatim(at_b)
    /\ op.kind = "execute_up_to_line" =>
          LET structure_map == get_structure_map(content)
              at_b == partial_by_line_new_lines(original_lines, structure_map, op.end_line)
          IN
          /\ written = join(at_b)
          /\ \A a \in 0..op.end_line :
                EmittedVerbatim(partial_by_line_new_lines(original_lines, structure_map, a))
                    \subseteq EmittedVerbatim(at_b)

\* Three blocks of one content line each, reduced at block 1: the reduction
\* at block 0 carries line 1 only, the one at block 1 lines 1 and 2
C24_Witness ==
    /\ op.kind = "execute_up_to_block"
    /\ op.block_index = 1
    /\ Len(blocks) = 3
    /\ total_lines(content) = 3
    /\ EmittedVerbatim(partial_template_new_lines(
                           splitlines_keepends(content),
                           included_lines(BlocksUpTo(blocks, 0)))) = {1}
    /\ EmittedVerbatim(partial_template_new_lines(
                           splitlines_keepends(content),
                           included_lines(op.blocks_to_include))) = {1, 2}
    /\ splitlines_keepends(written)[2] = splitlines_keepends(content)[2]

\* No control-close unit lacks an open before it
NoUnmatchedClose == \A k \in 1..Len(blocks) : Depths(blocks, k) >= 0

\* The control-close unit that matches the control-open unit k: the first
\* later unit that brings the depth back to what it was before k, if any
MatchingClose(k) ==
    LET closes == { j \in (k + 1)..Len(blocks) :
                      Depths(blocks, j) = Depths(blocks, k - 1) }
    IN IF closes = {} THEN None
       ELSE Some(CHOOSE j \in closes : \A m \in closes : j <= m)

\* The control-open unit that encloses unit j: the last open before j that
\* is not closed at j, if any
EnclosingOpen(j) ==
    LET opens == { k \in 1..(j - 1) :
                     /\ blocks[k].block_type \in ControlOpen
                     /\ Depths(blocks, k) = Depths(blocks, j) }
    IN IF opens = {} THEN None
       ELSE Some(CHOOSE k \in opens : \A m \in opens : m <= k)

\* C25: Recorded depths. Every unit has nesting_level >= 0, also in a
\* template with more closes than opens; and in a template without an
\* unmatched close, a control-open unit and its matching close have the same
\* nesting_level, and an else / else-if unit has the nesting_level of the
\* open that encloses it.
C25_RecordedDepths ==
    Parsed =>
        /\ \A k \in 1..Len(blocks) : blocks[k].nesting_level >= 0
        /\ NoUnmatchedClose =>
              \A k \in 1..Len(blocks) :
                 /\ (blocks[k].block_type \in ControlOpen /\ MatchingClose(k) # None) =>
                       /\ blocks[TheValue(MatchingClose(k))].block_type \in ControlClose
                       /\ blocks[TheValue(MatchingClose(k))].nesting_level = blocks[k].nesting_level
                 /\ (blocks[k].block_type \in ControlContinuation /\ EnclosingOpen(k) # None) =>
                       blocks[k].nesting_level = blocks[TheValue(EnclosingOpen(k))].nesting_level

\* if, if, end: the inner if is recorded at depth 1 and so is the end that
\* matches it; the outer if stays open
C25_Witness ==
    /\ Parsed
    /\ Len(blocks) = 3
    /\ blocks[1].block_type = "if" /\ blocks[1].nesting_level = 0
    /\ blocks[2].block_type = "if" /\ blocks[2].nesting_level = 1
    /\ blocks[3].block_type = "end" /\ blocks[3].nesting_level = 1
    /\ NoUnmatchedClose
    /\ MatchingClose(2) = Some(3)
    /\ MatchingClose(1) = None

\* The pattern names in the order of precedence, and the kind each stands for
PatternOrder ==
    << "comment", "else_if", "else", "end", "if_start", "range_start",
       "with_start", "define_start", "template", "include", "expression" >>

KindOfPattern(name) ==
    CASE name = "if_start" -> "if"
      [] name = "range_start" -> "range"
      [] name = "with_start" -> "with"
      [] name = "define_start" -> "define"
      [] OTHER -> name

\* The positions in PatternOrder of the patterns that match the stripped line
Matching(line) == { n \in 1..Len(PatternOrder) : PATTERNS(PatternOrder[n], strip(line)) }

\* C26: Classification precedence. The kind of every unit is the kind of the
\* first pattern, in the order comment, else-if, else, end, if, range, with,
\* define, template, include, expression, that matches its line, and plain
\* when none matches: never the kind of a later matching pattern.
C26_ClassificationPrecedence ==
    Parsed =>
        \A k \in 1..Len(blocks) :
            LET line == splitlines(content)[blocks[k].start_line]
                matching == Matching(line)
            IN
            IF matching = {}
            THEN blocks[k].block_type = "plain"
            ELSE /\ blocks[k].block_type \in { KindOfPattern(PatternOrder[n]) : n \in matching }
                 /\ \A n \in matching :
                       blocks[k].block_type = KindOfPattern(PatternOrder[n]) =>
                           \A m \in matching : n <= m

\* A line with an if action and an end action matches the end, if and
\* expression patterns and is classified end; a comment line matches comment
\* and expression and is classified comment; a line matching none is plain
C26_Witness ==
    /\ Parsed
    /\ Len(blocks) = 3
    /\ Matching(splitlines(content)[1]) = {4, 5, 11}
    /\ blocks[1].block_type = "end"
    /\ Matching(splitlines(content)[2]) = {1, 11}
    /\ blocks[2].block_type = "comment"
    /\ Matching(splitlines(content)[3]) = {}
    /\ blocks[3].block_type = "plain"

\* Some step of the trail probed cut point c with the given outcome
StepAt(c, pass) == \E i \in 1..Len(steps) : StepCut(steps[i]) = c /\ passed(steps[i]) = pass

\* C27: Adjacent pass/fail pair under any oracle. Throughout a bisection
\* loop last-known-good is low - 1 and the failing candidate, once set, is
\* high + 1, whatever the oracle answers. So a bisection that returns
\* found_error=true with failing index f has a failed step at f in its
\* trail, and either f is the first index and last-known-good is None, or
\* last-known-good is f - 1 and the trail has a passed step at f - 1.
C27_AdjacentPair ==
    Bisecting =>
        /\ pc = "loop" =>
              /\ last_successful = low - 1
              /\ failing_index # None => TheValue(failing_index) = high + 1
        /\ (Done /\ search_result.found_error) =>
              LET f == TheValue(FailingOf(search_result)) IN
              /\ FailingOf(search_result) # None
              /\ StepAt(f, FALSE)
              /\ IF f = FirstIndex
                 THEN LastGoodOf(search_result) = None
                 ELSE /\ LastGoodOf(search_result) = Some(f - 1)
                      /\ StepAt(f - 1, TRUE)

\* A non-monotone oracle on 7 lines: line 4 passes, line 6 fails, line 5
\* fails, although line 2 would fail; the pair returned is 4 / 5
C27_Witness ==
    /\ Done
    /\ searcher = "LineBinarySearcher"
    /\ total = 7
    /\ Cuts = << 4, 6, 5 >>
    /\ [i \in 1..3 |-> passed(steps[i])] = << TRUE, FALSE, FALSE >>
    /\ search_result.found_error
    /\ search_result.failing_line = Some(5)
    /\ search_result.last_successful_line = Some(4)

\* C28: Consistency of the final diagnostic. Every result with
\* found_error=true carries an error_result whose success flag is false,
\* also when the oracle may answer differently on a second run of the same
\* reduced copy.
C28_FinalDiagnosticFailed ==
    (Done /\ search_result.found_error) =>
        /\ search_result.error_result # None
        /\ ~TheValue(search_result.error_result).success

\* Every oracle answer seen so far is the one of the deterministic oracle,
\* monotone in the cut point, that passes every prefix cut below k and fails
\* every prefix cut at or above k; the unmodified document is the prefix cut
\* at the last index
DeterministicMonotone(k) ==
    \A i \in 1..Len(calls) :
        calls[i].result.success <=>
            ((IF calls[i].chart = "original" THEN LastIndex ELSE calls[i].cut) < k)

\* C29: Strategy equivalence. On a non-empty template and under the
\* deterministic monotone oracle whose first failing cut point is k (k one
\* past the last index: no cut point fails), each of the four searchers,
\* the linear ones started at the first unit/line, returns the same answer:
\* found_error exactly when some cut point fails, and then failing index k
\* and last-known-good k - 1 (None when k is the first index). Bisection and
\* linear search therefore agree at block and at line granularity.
C29_StrategyEquivalence ==
    \A k \in FirstIndex..(LastIndex + 1) :
        (Done /\ total > 0 /\ start_from = DefaultStart(searcher) /\ DeterministicMonotone(k)) =>
            /\ search_result.found_error = (k <= LastIndex)
            /\ search_result.found_error =>
                  /\ FailingOf(search_result) = Some(k)
                  /\ LastGoodOf(search_result) = (IF k = FirstIndex THEN None ELSE Some(k - 1))

\* The linear counterpart of the scenario of the specification: 10 units,
\* units 0..5 render, unit 6 fails; StepByStepSearcher from unit 0 returns
\* 6 and 5 after seven steps, as bisection does after three
C29_Witness ==
    /\ searcher = "StepByStepSearcher"
    /\ Done
    /\ total = 10
    /\ start_from = 0
    /\ DeterministicMonotone(6)
    /\ Len(steps) = 7
    /\ search_result.found_error
    /\ search_result.failing_block_index = Some(6)
    /\ search_result.last_successful_block_index = Some(5)

\* C30: Evidence for last-known-good. In the result of every searcher, for
\* every start position of the linear searchers, a last-known-good index
\* that is not None is the cut point of a step of the returned trail whose
\* probe passed.
C30_LastGoodHasPassedStep ==
    (Done /\ LastGoodOf(search_result) # None) =>
        \E i \in 1..Len(search_result.steps) :
            /\ StepCut(search_result.steps[i]) = TheValue(LastGoodOf(search_result))
            /\ passed(search_result.steps[i])

=============================================================================
